---- MODULE Spec2Model ----
(***************************************************************************)
(* Model of the AI-tools semantic search engine (semantic_search.py).      *)
(*                                                                         *)
(* Python strings are sequences of one-character strings; dicts are        *)
(* functions from field names to values; scores are fixed-point numbers in *)
(* units of 1/10000 (0.1 is 1000).                                         *)
(***************************************************************************)
EXTENDS Integers, Sequences, FiniteSets, TLC

(***************************************************************************)
(* Characters and the string primitives the code uses.                     *)
(***************************************************************************)
LowerCase == <<"a", "b", "c", "d", "e", "f", "g", "h", "i", "j", "k", "l", "m", "n", "o", "p", "q", "r", "s", "t", "u", "v", "w", "x", "y", "z">>

UpperCase == <<"A", "B", "C", "D", "E", "F", "G", "H", "I", "J", "K", "L", "M", "N", "O", "P", "Q", "R", "S", "T", "U", "V", "W", "X", "Y", "Z">>

Digits == <<"0", "1", "2", "3", "4", "5", "6", "7", "8", "9">>

HebrewLetters == <<"א", "ב", "ג", "ד", "ה", "ו", "ז", "ח", "ט", "י", "ך", "כ", "ל", "ם", "מ", "ן", "נ", "ס", "ע", "ף", "פ", "ץ", "צ", "ק", "ר", "ש", "ת">>

Range(s) == {s[i] : i \in 1..Len(s)}

\* the characters of the model in code-point order
CodeOrder ==
    <<"\t", "\n", " ", "!", "'", "+", ",", "-", ".", "/">> \o Digits \o <<"?">>
    \o UpperCase \o <<"_">> \o LowerCase \o HebrewLetters

\* str.isspace for the characters of the model
IsSpace(c) == c \in {" ", "\t", "\n"}

DigitChars == Range(Digits)

\* the characters of the regex class \w: letters, digits and the underscore
WordChars ==
    Range(LowerCase) \cup Range(UpperCase) \cup DigitChars \cup Range(HebrewLetters) \cup {"_"}

IsWord(c) == c \in WordChars

RECURSIVE LStrip(_)
RECURSIVE SubNonWord_deleting(_)
LStrip(s) == IF s # <<>> /\ IsSpace(Head(s)) THEN LStrip(Tail(s)) ELSE s

RECURSIVE RStrip(_)
RStrip(s) == IF s # <<>> /\ IsSpace(s[Len(s)]) THEN RStrip(SubSeq(s, 1, Len(s) - 1)) ELSE s

\* str.strip()
Strip(s) == RStrip(LStrip(s))

\* str.replace(old, new): leftmost non-overlapping occurrences, old non-empty
RECURSIVE Replace(_, _, _)
Replace(s, old, new) ==
    IF Len(s) < Len(old) THEN s
    ELSE IF SubSeq(s, 1, Len(old)) = old
         THEN new \o Replace(SubSeq(s, Len(old) + 1, Len(s)), old, new)
         ELSE <<Head(s)>> \o Replace(Tail(s), old, new)

\* the punctuation deleted instead of replaced by a space
SubNonWord_deleting(s) ==
    IF s = <<>> THEN <<>>
    ELSE (IF IsWord(Head(s)) \/ IsSpace(Head(s)) THEN <<Head(s)>> ELSE <<>>)
         \o SubNonWord_deleting(Tail(s))

\* re.sub(r'[^\w\s]', ' ', s)
SubNonWord(s) == [i \in 1..Len(s) |-> IF IsWord(s[i]) \/ IsSpace(s[i]) THEN s[i] ELSE " "]

\* re.sub(r'\s+', ' ', s)
RECURSIVE SubSpaces(_)
SubSpaces(s) ==
    IF s = <<>> THEN <<>>
    ELSE IF IsSpace(Head(s)) THEN <<" ">> \o SubSpaces(LStrip(s))
         ELSE <<Head(s)>> \o SubSpaces(Tail(s))

\* the cleanup both create_search_text and preprocess_query end with
Clean(s) == Strip(SubSpaces(SubNonWord(s)))

\* ' '.join(parts)
RECURSIVE Join(_)
Join(parts) ==
    IF parts = <<>> THEN <<>>
    ELSE IF Len(parts) = 1 THEN parts[1]
         ELSE parts[1] \o <<" ">> \o Join(Tail(parts))

\* the dict of preprocess_query, in insertion order
hebrew_to_english ==
    <<
      <<<<"צ", "'", "א", "ט">>, <<"c", "h", "a", "t">>>>,
      <<<<"צ", "א", "ט">>, <<"c", "h", "a", "t">>>>,
      <<<<"ב", "ו", "ט">>, <<"b", "o", "t">>>>,
      <<<<"ת", "מ", "ו", "נ", "ה">>, <<"i", "m", "a", "g", "e">>>>,
      <<<<"ת", "מ", "ו", "נ", "ו", "ת">>, <<"i", "m", "a", "g", "e">>>>,
      <<<<"ו", "י", "ד", "א", "ו">>, <<"v", "i", "d", "e", "o">>>>,
      <<<<"ו", "י", "ד", "י", "ו">>, <<"v", "i", "d", "e", "o">>>>,
      <<<<"ס", "ר", "ט", "ו", "ן">>, <<"v", "i", "d", "e", "o">>>>,
      <<<<"ט", "ק", "ס", "ט">>, <<"t", "e", "x", "t">>>>,
      <<<<"כ", "ת", "י", "ב", "ה">>, <<"w", "r", "i", "t", "i", "n", "g">>>>,
      <<<<"ע", "י", "צ", "ו", "ב">>, <<"d", "e", "s", "i", "g", "n">>>>,
      <<<<"י", "צ", "י", "ר", "ה">>, <<"g", "e", "n", "e", "r", "a", "t", "i", "o", "n", " ", "c", "r", "e", "a", "t", "e">>>>,
      <<<<"ח", "י", "נ", "מ", "י">>, <<"f", "r", "e", "e">>>>,
      <<<<"ב", "ח", "י", "נ", "ם">>, <<"f", "r", "e", "e">>>>,
      <<<<"ב", "ת", "ש", "ל", "ו", "ם">>, <<"p", "a", "i", "d">>>>,
      <<<<"ע", "ר", "י", "כ", "ה">>, <<"e", "d", "i", "t", "i", "n", "g">>>>,
      <<<<"ק", "ו", "ד">>, <<"c", "o", "d", "e">>>>,
      <<<<"ת", "כ", "נ", "ו", "ת">>, <<"p", "r", "o", "g", "r", "a", "m", "m", "i", "n", "g", " ", "c", "o", "d", "e">>>>,
      <<<<"א", "ת", "ר">>, <<"w", "e", "b", "s", "i", "t", "e">>>>,
      <<<<"ל", "ו", "ג", "ו">>, <<"l", "o", "g", "o">>>>,
      <<<<"מ", "ו", "ס", "י", "ק", "ה">>, <<"m", "u", "s", "i", "c">>>>,
      <<<<"ק", "ו", "ל">>, <<"v", "o", "i", "c", "e", " ", "a", "u", "d", "i", "o">>>>,
      <<<<"ת", "ר", "ג", "ו", "ם">>, <<"t", "r", "a", "n", "s", "l", "a", "t", "i", "o", "n">>>>,
      <<<<"ש", "פ", "ה">>, <<"l", "a", "n", "g", "u", "a", "g", "e">>>>
    >>

RECURSIVE ReplaceTable(_, _)
ReplaceTable(query, table) ==
    IF table = <<>> THEN query
    ELSE ReplaceTable(Replace(query, table[1][1], table[1][2]), Tail(table))

preprocess_query(query) == Clean(ReplaceTable(query, hebrew_to_english))

\* [part.strip() for part in parts if part.strip()]
RECURSIVE StrippedParts(_)
StrippedParts(parts) ==
    IF parts = <<>> THEN <<>>
    ELSE (IF Strip(Head(parts)) # <<>> THEN <<Strip(Head(parts))>> ELSE <<>>)
         \o StrippedParts(Tail(parts))

create_search_text(tool) ==
    LET parts == <<tool["name"], tool["description"], tool["category"], tool["tags"]>>
    IN  Clean(Join(StrippedParts(parts)))

(***************************************************************************)
(* Dicts, int(), the popularity bonus and list.sort.                       *)
(***************************************************************************)
\* d[k] = v on a dict
DictSet(d, k, v) == [f \in DOMAIN d \cup {k} |-> IF f = k THEN v ELSE d[f]]

Min(a, b) == IF a <= b THEN a ELSE b

\* position of character c in Digits, minus one
DigitValue(c) == (CHOOSE i \in 1..Len(Digits) : Digits[i] = c) - 1

\* the digits-and-underscores part of an integer literal: digits, single
\* underscores only between digits
IsDigitString(s) ==
    /\ s # <<>>
    /\ \A i \in 1..Len(s) : s[i] \in DigitChars \/ s[i] = "_"
    /\ s[1] # "_" /\ s[Len(s)] # "_"
    /\ \A i \in 1..Len(s) - 1 : ~(s[i] = "_" /\ s[i + 1] = "_")

RECURSIVE DigitsValue(_, _)
DigitsValue(s, acc) ==
    IF s = <<>> THEN acc
    ELSE IF Head(s) = "_" THEN DigitsValue(Tail(s), acc)
         ELSE DigitsValue(Tail(s), 10 * acc + DigitValue(Head(s)))

\* int(s): surrounding whitespace, an optional sign, then the digits;
\* ok = FALSE stands for ValueError
ParseInt(s) ==
    LET t      == Strip(s)
        signed == t # <<>> /\ t[1] \in {"+", "-"}
        body   == IF signed THEN Tail(t) ELSE t
    IN  IF IsDigitString(body)
        THEN [ok |-> TRUE,
              val |-> IF signed /\ t[1] = "-" THEN 0 - DigitsValue(body, 0)
                      ELSE DigitsValue(body, 0)]
        ELSE [ok |-> FALSE, val |-> 0]

\* int(popularity.replace('+', '').replace(',', ''))
ParsePopularity(popularity) ==
    ParseInt(Replace(Replace(popularity, <<"+">>, <<>>), <<",">>, <<>>))

\* 0.1, the cap of the bonus, in score units
MaxBonus == 1000

\* 1.0 in score units
One == 10000

\* the bonus without its cap
popularity_bonus_uncapped(tool) ==
    LET pop_num == ParsePopularity(tool["popularity"])
    IN  IF tool["popularity"] # <<>> /\ pop_num.ok THEN pop_num.val ELSE 0

\* pop_num / 10000 in units of 1/10000 is pop_num itself
popularity_bonus(tool) ==
    LET pop_num == ParsePopularity(tool["popularity"])
    IN  IF tool["popularity"] # <<>> /\ pop_num.ok THEN Min(pop_num.val, MaxBonus) ELSE 0

\* one step of a stable descending sort: x goes after every element whose
\* key is at least its own
RECURSIVE InsertDesc(_, _, _)
InsertDesc(sorted, x, key) ==
    IF sorted = <<>> THEN <<x>>
    ELSE IF Head(sorted)[key] >= x[key]
         THEN <<Head(sorted)>> \o InsertDesc(Tail(sorted), x, key)
         ELSE <<x>> \o sorted

\* list.sort(key=lambda x: x[key], reverse=True): stable
RECURSIVE SortDesc(_, _)
SortDesc(list, key) ==
    IF list = <<>> THEN <<>>
    ELSE InsertDesc(SortDesc(SubSeq(list, 1, Len(list) - 1), key), list[Len(list)], key)

(***************************************************************************)
(* The catalog store, the embedding model and the similarity index.        *)
(***************************************************************************)
\* SQL NULL, None in Python
NULL == <<"NULL">>

\* rows as the cursor returns them: name, url, description, category,
\* popularity, pricing, tags; description non-empty, ordered by name
RowA == <<<<"A">>, <<>>, <<"c", "h", "a", "t", "!">>, <<"C", "h", "a", "t">>, <<"5", "0", "0">>, NULL, NULL>>

RowB == <<<<"B">>, <<>>, <<"a", "r", "t">>, <<"A", "r", "t">>, <<"5", ",", "0", "0", "0", "+">>, <<"f", "r", "e", "e">>, NULL>>

RowC == <<<<"C">>, <<>>, <<"b", "o", "t">>, NULL, <<"1", ",", "0", "0", "0", ",", "0", "0", "0">>, NULL, <<"a", "i">>>>

RowD == <<<<"D">>, <<>>, <<"x">>, <<"C", "h", "a", "t">>, <<"N", "/", "A">>, NULL, NULL>>

QueryResults == {<<RowA, RowD>>, <<RowB, RowC>>}

\* value or ''
OrEmpty(v) == IF v = NULL THEN <<>> ELSE v

ToolOfRow(row) ==
    [name |-> row[1], url |-> row[2], description |-> row[3],
     category |-> OrEmpty(row[4]), popularity |-> OrEmpty(row[5]),
     pricing |-> OrEmpty(row[6]), tags |-> OrEmpty(row[7])]

load_tools_from_db(rows) == [i \in 1..Len(rows) |-> ToolOfRow(rows[i])]

\* model.encode(texts): one vector per text, a function of the text alone
Encode(texts) == [i \in 1..Len(texts) |-> [text |-> texts[i], unit |-> FALSE]]

\* faiss.normalize_L2, in place
NormalizeL2(rows) == [i \in 1..Len(rows) |-> [rows[i] EXCEPT !.unit = TRUE]]

\* faiss.IndexFlatIP(dimension): an index without vectors
IndexFlatIP == <<>>

\* index.add(rows)
IndexAdd(ix, rows) == ix \o rows

\* the embeddings and the index setup_search_index leaves
BuildEmbeddings(tools) ==
    [ndim |-> 2,
     rows |-> NormalizeL2(Encode([i \in 1..Len(tools) |-> create_search_text(tools[i])]))]

BuildIndex(emb) == IndexAdd(IndexFlatIP, emb.rows)

\* the inner products the index can report
Scores == {7000, 7400}

\* the score of a label the index pads its answer with
NegInf == -1000000

\* the largest top_k and count a caller passes
MaxTopK == 3

MaxCount == 2

\* the number of calls a behaviour makes
MaxSteps == 3

\* index.search(q, top_k): the top_k best rows by score, best first, padded
\* with label -1 when the index holds fewer vectors
RECURSIVE Hits(_, _, _)
Hits(m, labels, best) ==
    IF m = 0 THEN {<<>>}
    ELSE UNION {{<<[score |-> s, idx |-> i]>> \o rest : rest \in Hits(m - 1, labels \ {i}, s)} :
                    <<i, s>> \in labels \X {x \in Scores : x <= best}}

IndexSearch(ix, top_k) ==
    LET m == Min(top_k, Len(ix))
    IN  {hits \o [i \in 1..(top_k - m) |-> [score |-> NegInf, idx |-> -1]] :
            hits \in Hits(m, 0..(Len(ix) - 1), One)}

(***************************************************************************)
(* The engine: AIToolsSemanticSearch.                                      *)
(***************************************************************************)
VARIABLES
    tools_data,   \* self.tools_data: the corpus, a list of dicts
    embeddings,   \* self.embeddings
    index,        \* self.index: the vectors the index holds
    disk,         \* the content of search_index.pkl
    origin,       \* which components the last load_index assigned
    call,         \* the last call: its name, arguments and what it did
    ret,          \* what the last call returned
    steps,        \* the number of calls made
    norm,         \* preprocess_query on its own: a query, its normal form, and that normalized again
    lock,         \* the document of SERVICE_ID in bot_locks, or NoDoc
    now,          \* datetime.utcnow(), in seconds
    inst          \* each instance of Conflict.py: where it is, and the time it sleeps until

\* the engine's variables
engine == <<tools_data, embeddings, index, disk, origin, call, ret, steps>>

\* the variables of the lock
locking == <<lock, now, inst>>

vars == <<engine, norm, locking>>

\* no document of SERVICE_ID in the collection
NoDoc == [absent |-> TRUE]

\* the instances started with one SERVICE_ID, each with its own INSTANCE_ID
NumInstances == 2

Instances == 1..NumInstances

\* an instance entering main: in acquire_lock, not sleeping
Starting == [pc |-> "acquiring", at |-> 0]

InitLocking == lock = NoDoc /\ now = 0 /\ inst = [i \in Instances |-> Starting]

\* the content of a path that does not exist or holds no pickle
NoFile == [absent |-> TRUE]

SavedPath == "search_index.pkl"

\* other paths load_index can be given
OtherFiles ==
    [missing    |-> NoFile,
     empty_dict |-> <<>>,
     only_tools |-> [tools_data |-> load_tools_from_db(<<RowC>>)],
     flat       |-> [tools_data |-> load_tools_from_db(<<RowC>>),
                     embeddings |-> [ndim |-> 1, rows |-> <<>>]],
     short      |-> [tools_data |-> load_tools_from_db(<<RowA, RowD>>),
                     embeddings |-> BuildEmbeddings(load_tools_from_db(<<RowA>>))],
     long       |-> [tools_data |-> load_tools_from_db(<<RowC>>),
                     embeddings |-> BuildEmbeddings(load_tools_from_db(<<RowB, RowC>>))]]

ReadFile(path) == IF path = SavedPath THEN disk ELSE OtherFiles[path]

Queries == {<<>>, <<" ", " ">>, <<"!", "!", "!">>, <<"b", "o", "t">>}

CategoryArgs == {<<"c", "h", "a", "t">>, <<"A", "R", "T">>, <<>>}

\* the name the caller of a query writes into a record it was returned
Changed == <<"C", "h", "a", "n", "g", "e", "d">>

\* a returned element is an alias of the corpus dict at ref, or a dict of its own
IsAlias(e) == "ref" \in DOMAIN e

Deref(e) == IF IsAlias(e) THEN tools_data[e.ref] ELSE e

\* one more call, while the behaviour has calls left
Tick == steps < MaxSteps /\ steps' = steps + 1 /\ UNCHANGED <<norm, locking>>

\* no query normalized yet
NormIdle == [query |-> <<>>, once |-> <<>>, twice |-> <<>>]

Init ==
    \E rows \in QueryResults :
        /\ tools_data = load_tools_from_db(rows)
        /\ embeddings = BuildEmbeddings(load_tools_from_db(rows))
        /\ index = BuildIndex(BuildEmbeddings(load_tools_from_db(rows)))
        /\ disk = NoFile
        /\ origin = [tools_data |-> "new", embeddings |-> "new", index |-> "new"]
        /\ call = [op |-> "__init__", changed |-> {}]
        /\ ret = <<>>
        /\ steps = 0
        /\ norm = NormIdle
        /\ InitLocking

(***************************************************************************)
(* search                                                                  *)
(***************************************************************************)
\* list[idx] for a Python index, in the 1-based positions of the model;
\* IndexError when idx < -len(list)
PyIndex(list, idx) == IF idx >= 0 THEN idx + 1 ELSE Len(list) + idx + 1

\* one pass of the loop body for enumerate position i (0-based i + 1)
ScoredResult(tools, hit, i) ==
    LET tool   == tools[PyIndex(tools, hit.idx)]
        scored == DictSet(DictSet(tool, "relevance_score", hit.score), "rank", i)
    IN  DictSet(scored, "final_score", hit.score + popularity_bonus(scored))

\* the results list the loop leaves, from position i of the answer on
RECURSIVE Collect(_, _, _)
Collect(tools, ans, i) ==
    IF i > Len(ans) THEN <<>>
    ELSE (IF ans[i].idx >= Len(tools) THEN <<>> ELSE <<ScoredResult(tools, ans[i], i)>>)
         \o Collect(tools, ans, i + 1)

\* tools_data[idx] raises IndexError
SearchRaises(tools, ans) == \E i \in 1..Len(ans) : ans[i].idx < 0 - Len(tools)

\* the results left in the order of the loop
SortResults_skipped(results) == results

\* results.sort(key=final_score, reverse=True)
SortResults(results) == SortDesc(results, "final_score")

SearchResults(tools, ans) == SortResults(Collect(tools, ans, 1))

\* the early return of search
IsBlankQuery(query) == Strip(query) = <<>>

Search(query, top_k) ==
    /\ Tick
    /\ IF IsBlankQuery(query)
       THEN /\ ret' = <<>>
            /\ call' = [op |-> "search", query |-> query, encoded |-> <<>>,
                        ans |-> <<>>, raised |-> FALSE, changed |-> {}]
       ELSE LET processed_query == preprocess_query(query)
            IN  \E ans \in IndexSearch(index, top_k) :
                /\ ret' = IF SearchRaises(tools_data, ans) THEN <<>>
                          ELSE SearchResults(tools_data, ans)
                /\ call' = [op |-> "search", query |-> query,
                            encoded |-> <<processed_query>>, ans |-> ans,
                            raised |-> SearchRaises(tools_data, ans), changed |-> {}]
    /\ UNCHANGED <<tools_data, embeddings, index, disk, origin>>

(***************************************************************************)
(* search_by_category, get_categories, get_random_tools, get_popular_tools *)
(***************************************************************************)
\* str.lower()
Lower(s) ==
    [i \in 1..Len(s) |->
        IF \E k \in 1..Len(UpperCase) : UpperCase[k] = s[i]
        THEN LowerCase[CHOOSE k \in 1..Len(UpperCase) : UpperCase[k] = s[i]]
        ELSE s[i]]

\* sub in s
Contains(sub, s) == \E i \in 0..(Len(s) - Len(sub)) : SubSeq(s, i + 1, i + Len(sub)) = sub

RECURSIVE CategoryScan(_, _, _, _)
CategoryScan(tools, category, top_k, results) ==
    IF tools = <<>> THEN results
    ELSE IF Contains(Lower(category), Lower(Head(tools)["category"]))
         THEN LET tool_copy == DictSet(DictSet(Head(tools), "rank", Len(results) + 1),
                                       "relevance_score", One)
              IN  IF Len(results) + 1 >= top_k THEN results \o <<tool_copy>>
                  ELSE CategoryScan(Tail(tools), category, top_k, results \o <<tool_copy>>)
         ELSE CategoryScan(Tail(tools), category, top_k, results)

SearchByCategory(category, top_k) ==
    /\ Tick
    /\ ret' = CategoryScan(tools_data, category, top_k, <<>>)
    /\ call' = [op |-> "search_by_category", category |-> category, changed |-> {}]
    /\ UNCHANGED <<tools_data, embeddings, index, disk, origin>>

\* a < b for strings, by code point
CodePoint(c) == CHOOSE i \in 1..Len(CodeOrder) : CodeOrder[i] = c

RECURSIVE StrLess(_, _)
StrLess(a, b) ==
    IF b = <<>> THEN FALSE
    ELSE IF a = <<>> THEN TRUE
    ELSE IF Head(a) = Head(b) THEN StrLess(Tail(a), Tail(b))
    ELSE CodePoint(Head(a)) < CodePoint(Head(b))

\* sorted(list(set))
RECURSIVE Sorted(_)
Sorted(set) ==
    IF set = {} THEN <<>>
    ELSE LET least == CHOOSE x \in set : \A y \in set \ {x} : StrLess(x, y)
         IN  <<least>> \o Sorted(set \ {least})

GetCategories ==
    /\ Tick
    /\ ret' = Sorted({tools_data[i]["category"] : i \in 1..Len(tools_data)} \ {<<>>})
    /\ call' = [op |-> "get_categories", changed |-> {}]
    /\ UNCHANGED <<tools_data, embeddings, index, disk, origin>>

\* count draws of 1..n in which a position may be drawn again
Samples_with_replacement(n, count) == [1..count -> 1..n]

\* random.sample(range(n), count): count distinct positions in any order
Samples(n, count) ==
    {s \in [1..count -> 1..n] : \A i, j \in 1..count : i # j => s[i] # s[j]}

\* the loop over random_tools: it writes into the dicts the sample holds
MarkSampled(tools, sample) ==
    [i \in 1..Len(tools) |->
        IF \E j \in 1..Len(sample) : sample[j] = i
        THEN LET j == CHOOSE j \in 1..Len(sample) : sample[j] = i
             IN  DictSet(DictSet(tools[i], "rank", j), "relevance_score", One)
        ELSE tools[i]]

\* what get_random_tools returns for a sample: the sampled dicts themselves
RandomTools(sample) == [j \in 1..Len(sample) |-> [ref |-> sample[j]]]

\* return self.tools_data: the corpus list itself
WholeCorpus(tools) == [i \in 1..Len(tools) |-> [ref |-> i]]

GetRandomTools(count) ==
    /\ Tick
    /\ IF count >= Len(tools_data)
       THEN /\ ret' = WholeCorpus(tools_data)
            /\ tools_data' = tools_data
       ELSE \E sample \in Samples(Len(tools_data), count) :
            /\ tools_data' = MarkSampled(tools_data, sample)
            /\ ret' = RandomTools(sample)
    /\ call' = [op |-> "get_random_tools", count |-> count, changed |-> {}]
    /\ UNCHANGED <<embeddings, index, disk, origin>>

RECURSIVE WithPopNum(_)
WithPopNum(tools) ==
    IF tools = <<>> THEN <<>>
    ELSE LET pop_num == ParsePopularity(Head(tools)["popularity"])
         IN  (IF Head(tools)["popularity"] # <<>> /\ pop_num.ok
              THEN <<DictSet(Head(tools), "pop_num", pop_num.val)>>
              ELSE <<>>)
             \o WithPopNum(Tail(tools))

PopularTools(tools, top_k) ==
    LET sorted == SortDesc(WithPopNum(tools), "pop_num")
        top    == SubSeq(sorted, 1, Min(top_k, Len(sorted)))
    IN  [i \in 1..Len(top) |-> DictSet(DictSet(top[i], "rank", i), "relevance_score", One)]

GetPopularTools(top_k) ==
    /\ Tick
    /\ ret' = PopularTools(tools_data, top_k)
    /\ call' = [op |-> "get_popular_tools", changed |-> {}]
    /\ UNCHANGED <<tools_data, embeddings, index, disk, origin>>

\* the calls that return records
RecordOps == {"search", "search_by_category", "get_random_tools", "get_popular_tools"}

\* the caller writes a field of the i-th record it was returned
\* (results[i]['name'] = 'Changed')
CallerMutate(i) ==
    /\ Tick
    /\ call.op \in RecordOps
    /\ i \in 1..Len(ret)
    /\ i \notin call.changed
    /\ IF IsAlias(ret[i])
       THEN /\ tools_data' = [tools_data EXCEPT ![ret[i].ref] = DictSet(@, "name", Changed)]
            /\ ret' = ret
       ELSE /\ ret' = [ret EXCEPT ![i] = DictSet(@, "name", Changed)]
            /\ tools_data' = tools_data
    /\ call' = [call EXCEPT !.changed = @ \cup {i}]
    /\ UNCHANGED <<embeddings, index, disk, origin>>

(***************************************************************************)
(* save_index, load_index                                                  *)
(***************************************************************************)
\* the dict save_index pickles
Snapshot(tools, emb) == [tools_data |-> tools, embeddings |-> emb]

SaveIndex ==
    /\ Tick
    /\ disk' = Snapshot(tools_data, embeddings)
    /\ ret' = <<>>
    /\ call' = [op |-> "save_index", changed |-> {}]
    /\ UNCHANGED <<tools_data, embeddings, index, origin>>

\* how far load_index gets on the unpickled data before an exception:
\* 0 open/pickle.load or data['tools_data'] raises, 1 data['embeddings']
\* raises, 2 embeddings.shape[1] raises, 3 it returns True
LoadProgress(data) ==
    IF "tools_data" \notin DOMAIN data THEN 0
    ELSE IF "embeddings" \notin DOMAIN data THEN 1
    ELSE IF data["embeddings"].ndim < 2 THEN 2
    ELSE 3

LoadIndex(path) ==
    LET data == ReadFile(path)
        done == LoadProgress(data)
    IN  /\ Tick
        /\ tools_data' = IF done >= 1 THEN data["tools_data"] ELSE tools_data
        /\ embeddings' = IF done >= 2 THEN data["embeddings"] ELSE embeddings
        /\ index' = IF done >= 3 THEN BuildIndex(data["embeddings"]) ELSE index
        /\ origin' = [tools_data |-> IF done >= 1 THEN "new" ELSE "old",
                      embeddings |-> IF done >= 2 THEN "new" ELSE "old",
                      index      |-> IF done >= 3 THEN "new" ELSE "old"]
        /\ call' = [op |-> "load_index", path |-> path, ok |-> done = 3, changed |-> {}]
        /\ ret' = <<>>
        /\ UNCHANGED disk

Next ==
    \/ \E query \in Queries, top_k \in 1..MaxTopK : Search(query, top_k)
    \/ \E category \in CategoryArgs, top_k \in 1..MaxTopK : SearchByCategory(category, top_k)
    \/ GetCategories
    \/ \E count \in 0..MaxCount : GetRandomTools(count)
    \/ \E top_k \in 1..MaxTopK : GetPopularTools(top_k)
    \/ \E i \in 1..MaxTopK : CallerMutate(i)
    \/ SaveIndex
    \/ \E path \in {SavedPath} \cup DOMAIN OtherFiles : LoadIndex(path)

Spec == Init /\ [][Next]_vars

(***************************************************************************)
(* Properties.                                                             *)
(***************************************************************************)
\* a step of the caller, writing into a record of the last result
CallerStep == call'.op = call.op /\ call'.changed # call.changed /\ call'.changed # {}

\* a step that is a call of one of the engine's methods in ops
HandlerStep(ops) == steps' # steps /\ call'.op \in ops /\ call'.changed = {}

QueryOps == RecordOps \cup {"get_categories"}

\* the popularity bonus as the ranking policy states it, in score units:
\* nothing for an empty or unparseable popularity, else value/10000 capped at 0.1
StatedBonus(popularity) ==
    IF popularity = <<>> \/ ~ParsePopularity(popularity).ok THEN 0
    ELSE IF ParsePopularity(popularity).val >= 1000 THEN 1000
    ELSE ParsePopularity(popularity).val

SearchReturned == call.op = "search" /\ ~call.raised /\ call.changed = {}

\* C1: changing a field of a record get_random_tools returned leaves the
\* corpus unchanged, the returned records being copies.
C1_ReturnedRecordsAreCopies ==
    [][(call.op = "get_random_tools" /\ CallerStep) => tools_data' = tools_data]_vars

\* C2: no query call (search, search_by_category, get_categories,
\* get_random_tools, get_popular_tools) changes the corpus.
C2_CorpusReadOnly ==
    [][HandlerStep(QueryOps) => tools_data' = tools_data]_vars

\* C3: search returns its results in non-increasing final_score order and
\* the rank of the result at position i is i.
C3_RankIsFinalPosition ==
    SearchReturned =>
        \A i \in 1..Len(ret) :
            /\ ret[i].rank = i
            /\ i < Len(ret) => ret[i].final_score >= ret[i + 1].final_score

\* C4 as stated: of two results of one search with the same
\* relevance_score and different parseable popularity, the one with the
\* higher popularity is placed above the other.
C4_HigherPopularityNoLower ==
    SearchReturned =>
        \A i, j \in 1..Len(ret) :
            (/\ ret[i].relevance_score = ret[j].relevance_score
             /\ ret[i].popularity # <<>> /\ ParsePopularity(ret[i].popularity).ok
             /\ ret[j].popularity # <<>> /\ ParsePopularity(ret[j].popularity).ok
             /\ ParsePopularity(ret[i].popularity).val > ParsePopularity(ret[j].popularity).val)
            => i < j

\* C4 as amended: of two results of one search with the same
\* relevance_score, the one with the larger popularity bonus is placed above
\* the other, and two with the same bonus keep the order in which the index
\* returned them.
C4_HigherBonusRanksHigher ==
    SearchReturned =>
        \A i, j \in 1..Len(ret) :
            ret[i].relevance_score = ret[j].relevance_score =>
                /\ StatedBonus(ret[i].popularity) > StatedBonus(ret[j].popularity) => i < j
                /\ (/\ StatedBonus(ret[i].popularity) = StatedBonus(ret[j].popularity)
                    /\ ret[i].rank < ret[j].rank) => i < j

\* a search whose index answer held the record with the smaller bonus
\* first, at the same score, and which returned the other one first
C4_Witness ==
    /\ SearchReturned
    /\ \E i, j \in 1..Len(ret) :
        /\ i < j
        /\ ret[i].relevance_score = ret[j].relevance_score
        /\ StatedBonus(ret[i].popularity) > StatedBonus(ret[j].popularity)
        /\ ret[i].rank > ret[j].rank

\* C5: a query that is empty, blank or normalizes to the empty string
\* returns nothing, and neither the embedding model nor the index is asked.
C5_EmptyNormalizedQueryReturnsNothing ==
    (call.op = "search" /\ preprocess_query(call.query) = <<>>) =>
        ret = <<>> /\ call.encoded = <<>> /\ call.ans = <<>> /\ ~call.raised

\* C6: search returns at most top_k results, each a copy of a corpus record
\* the index returned the row of, no record more often than the index
\* returned its row.
C6_ResultsAreRetrievedRows ==
    SearchReturned =>
        /\ Len(ret) <= Len(call.ans)
        /\ \A i \in 1..Len(ret) : \E k \in 1..Len(tools_data) :
               \A f \in DOMAIN tools_data[k] \ {"rank", "relevance_score"} :
                   ret[i][f] = tools_data[k][f]
        /\ \A k \in 1..Len(tools_data) :
               Cardinality({i \in 1..Len(ret) : ret[i].name = tools_data[k].name})
                   <= Cardinality({j \in 1..Len(call.ans) : call.ans[j].idx = k - 1})

\* C7: the embeddings hold one row per corpus record and the index holds
\* exactly those rows.
C7_RowsAlignedWithCorpus ==
    /\ embeddings.ndim = 2
    /\ Len(embeddings.rows) = Len(tools_data)
    /\ index = embeddings.rows

\* C8: the corpus, the embeddings and the index are all those from before
\* the last load_index or all those of the snapshot it loaded.
C8_PublishBySwap ==
    origin.tools_data = origin.embeddings /\ origin.embeddings = origin.index

\* C9: load_index of the path save_index has just written succeeds and
\* leaves the corpus and the embeddings as they were saved, the index
\* holding the rows of those embeddings.
C9_SaveLoadRoundTrip ==
    [][(/\ call.op = "save_index"
        /\ HandlerStep({"load_index"})
        /\ call'.path = SavedPath
        /\ Len(tools_data) > 0)
       => (/\ call'.ok
           /\ tools_data' = tools_data
           /\ embeddings' = embeddings
           /\ index' = embeddings.rows)]_vars

\* C10: final_score is relevance_score plus the stated bonus; the bonus is
\* at most 0.1 and is 0.1 for popularity 1,000,000.
C10_FinalScoreIsRelevancePlusBonus ==
    (call.op = "search" /\ ~call.raised) =>
        \A i \in 1..Len(ret) :
            /\ ret[i].final_score = ret[i].relevance_score + StatedBonus(ret[i].popularity)
            /\ ret[i].final_score - ret[i].relevance_score <= 1000
            /\ ret[i].popularity = <<"1", ",", "0", "0", "0", ",", "0", "0", "0">>
                   => ret[i].final_score = ret[i].relevance_score + 1000

\* a search that returned a record of popularity 1,000,000, which the index
\* scored 0.74, with final_score 0.84
C10_Witness ==
    /\ call.op = "search" /\ ~call.raised
    /\ \E i \in 1..Len(ret) :
        /\ ret[i].popularity = <<"1", ",", "0", "0", "0", ",", "0", "0", "0">>
        /\ ret[i].relevance_score = 7400
        /\ ret[i].final_score = 8400

\* C11: every record search_by_category, get_random_tools and
\* get_popular_tools return has relevance_score 1.0, final_score 1.0 and its
\* 1-based position as rank.
C11_RetrievalModesScoredShape ==
    (call.op \in {"search_by_category", "get_random_tools", "get_popular_tools"}
     /\ call.changed = {}) =>
        \A i \in 1..Len(ret) :
            /\ {"relevance_score", "final_score", "rank"} \subseteq DOMAIN Deref(ret[i])
            /\ Deref(ret[i])["relevance_score"] = One
            /\ Deref(ret[i])["final_score"] = One
            /\ Deref(ret[i])["rank"] = i

(***************************************************************************)
(* preprocess_query on its own, as test_preprocess_query_translations      *)
(* calls it: on an engine that was never constructed.                      *)
(***************************************************************************)
\* the longest query made of the letters of NormLetters
MaxQueryLen == 3

\* the letters of two table phrases with a common prefix, punctuation, the
\* underscore and the space
NormLetters == {"ק", "ו", "ד", "ל", "!", "_", " "}

\* the query of the test
ExampleQuery == <<"צ", "'", "א", "ט", " ", "ב", "ו", "ט", " ", "ח", "י", "נ", "מ", "י", "!", "!", "!">>

Phrases == {hebrew_to_english[i][1] : i \in 1..Len(hebrew_to_english)}

\* every short string of NormLetters; two table phrases one after the
\* other, joined, overlapped on a common letter, or around punctuation or a
\* space; a table phrase with punctuation or a space inside it; the query of
\* the test
NormQueries ==
    UNION {[1..n -> NormLetters] : n \in 0..MaxQueryLen}
    \cup {p \o sep \o q : p \in Phrases, q \in Phrases, sep \in {<<>>, <<"!">>, <<" ">>, <<"'">>}}
    \cup {pq[1] \o Tail(pq[2]) : pq \in {x \in Phrases \X Phrases : x[2][1] = x[1][Len(x[1])]}}
    \cup UNION {{SubSeq(p, 1, k) \o sep \o SubSeq(p, k + 1, Len(p)) :
                     k \in 1..(Len(p) - 1), sep \in {<<"!">>, <<" ">>, <<"!", "!">>}} : p \in Phrases}
    \cup {ExampleQuery}

\* no engine: the object the test makes with __new__
InitNormalize ==
    /\ tools_data = <<>>
    /\ embeddings = [ndim |-> 2, rows |-> <<>>]
    /\ index = IndexFlatIP
    /\ disk = NoFile
    /\ origin = [tools_data |-> "new", embeddings |-> "new", index |-> "new"]
    /\ call = [op |-> "__new__", changed |-> {}]
    /\ ret = <<>>
    /\ steps = 0
    /\ norm = NormIdle
    /\ InitLocking

\* the one call of a behaviour: preprocess_query(query), and preprocess_query
\* of what it returned
Normalize(query) ==
    /\ norm = NormIdle
    /\ \E once \in {preprocess_query(query)} :
           norm' = [query |-> query, once |-> once, twice |-> preprocess_query(once)]
    /\ UNCHANGED <<engine, locking>>

NextNormalize == \E query \in NormQueries : Normalize(query)

SpecNormalize == InitNormalize /\ [][NextNormalize]_vars

\* s holds t as a contiguous part
HasPart(s, t) == \E i \in 0..(Len(s) - Len(t)) : SubSeq(s, i + 1, i + Len(t)) = t

\* str.isalnum of one character: a letter or a digit
IsAlnum(c) == c \in WordChars \ {"_"}

\* C12: the normal form of a query holds no table phrase and nothing but
\* alphanumeric characters and single spaces between them (every other
\* character became a space, runs of spaces became one, the ends were
\* trimmed), and the normal form of the test's query is "chat bot free".
C12_PreprocessQuery ==
    /\ \A i \in 1..Len(norm.once) :
           /\ IsAlnum(norm.once[i]) \/ norm.once[i] = " "
           /\ norm.once[i] = " " => (1 < i /\ i < Len(norm.once) /\ norm.once[i + 1] # " ")
    /\ \A p \in Phrases : ~HasPart(norm.once, p)
    /\ norm.query = ExampleQuery
           => norm.once = <<"c", "h", "a", "t", " ", "b", "o", "t", " ", "f", "r", "e", "e">>

\* C13: normalizing a normal form leaves it as it is.
C13_PreprocessIdempotent == norm.twice = norm.once

\* a query in which two table phrases overlap and punctuation follows, its
\* normal form holding a translation
C13_Witness ==
    /\ \E p \in Phrases, q \in Phrases : p # q /\ norm.query = p \o Tail(q)
    /\ norm.once # norm.query
    /\ norm.once # <<>>
    /\ norm.twice = norm.once

(***************************************************************************)
(* get_random_tools over catalogs of two and of three records, among the   *)
(* operations that write the corpus or the file it is loaded from; the     *)
(* other queries leave both as they are.                                   *)
(***************************************************************************)
\* what the tools query returns for the larger catalog
LargerQueryResult == <<RowB, RowC, RowD>>

InitSample ==
    \E rows \in QueryResults \cup {LargerQueryResult} :
        /\ tools_data = load_tools_from_db(rows)
        /\ embeddings = BuildEmbeddings(load_tools_from_db(rows))
        /\ index = BuildIndex(BuildEmbeddings(load_tools_from_db(rows)))
        /\ disk = NoFile
        /\ origin = [tools_data |-> "new", embeddings |-> "new", index |-> "new"]
        /\ call = [op |-> "__init__", changed |-> {}]
        /\ ret = <<>>
        /\ steps = 0
        /\ norm = NormIdle
        /\ InitLocking

NextSample ==
    \/ \E count \in 0..MaxCount : GetRandomTools(count)
    \/ \E i \in 1..MaxTopK : CallerMutate(i)
    \/ SaveIndex
    \/ \E path \in {SavedPath} \cup DOMAIN OtherFiles : LoadIndex(path)

SpecSample == InitSample /\ [][NextSample]_vars

\* C14: get_random_tools(count) returns min(count, corpus size) records of
\* the corpus, none of them twice; the whole corpus in corpus order when
\* count is at least the corpus size.
C14_RandomToolsDistinct ==
    call.op = "get_random_tools" =>
        /\ Len(ret) = Min(call.count, Len(tools_data))
        /\ \A i \in 1..Len(ret) : IsAlias(ret[i]) /\ ret[i].ref \in 1..Len(tools_data)
        /\ \A i, j \in 1..Len(ret) : i # j => ret[i].ref # ret[j].ref
        /\ call.count >= Len(tools_data) => \A i \in 1..Len(ret) : ret[i].ref = i

\* two of three corpus records were drawn, the later one first
C14_Witness ==
    /\ call.op = "get_random_tools"
    /\ call.count = 2
    /\ Len(tools_data) = 3
    /\ Len(ret) = 2
    /\ ret[1].ref > ret[2].ref

(***************************************************************************)
(* Conflict.py: the lock document of SERVICE_ID in MongoDB, and the         *)
(* instances that take it and keep it.                                      *)
(***************************************************************************)
\* LOCK_LEASE_SECONDS and LOCK_RETRY_SECONDS, at their defaults
LEASE == 60

RETRY == 20

Max(a, b) == IF a >= b THEN a ELSE b

\* max(5, int(LEASE * 0.4))
interval == Max(5, (LEASE * 4) \div 10)

\* the step of the clock: a common divisor of LEASE, RETRY and interval
Tock == 4

\* the time the clock stops at
MaxTime == 88

\* the dict of $set in acquire_lock, on the document of SERVICE_ID
Acquired(i, t) == [owner |-> i, expiresAt |-> t + LEASE, updatedAt |-> t]

\* the filter of acquire_lock: the lease is over, or the caller owns it
AcquireMatches(doc, i, t) == doc # NoDoc /\ (doc.expiresAt <= t \/ doc.owner = i)

\* find_one_and_update with upsert=True and ReturnDocument.AFTER: a matching
\* document is updated; with no document of that _id one is inserted; with a
\* document the filter does not match the insert of a second document of
\* that _id raises DuplicateKeyError
AcquireUpdate(doc, i, t) ==
    IF doc = NoDoc \/ AcquireMatches(doc, i, t)
    THEN [raised |-> FALSE, doc |-> Acquired(i, t)]
    ELSE [raised |-> TRUE, doc |-> doc]

\* one turn of the loop of acquire_lock; main starts heartbeat when it returns
acquire_lock(i) ==
    /\ inst[i].pc = "acquiring"
    /\ now >= inst[i].at
    /\ LET r == AcquireUpdate(lock, i, now)
       IN  /\ lock' = r.doc
           /\ inst' = [inst EXCEPT ![i] =
                          IF r.raised THEN [pc |-> "raised", at |-> now]
                          ELSE IF r.doc.owner = i THEN [pc |-> "active", at |-> now + interval]
                          ELSE [pc |-> "acquiring", at |-> now + RETRY]]
    /\ UNCHANGED <<now, engine, norm>>

\* the filter of heartbeat: the caller owns the document
HeartbeatMatches_any_owner(doc, i) == doc # NoDoc

HeartbeatMatches(doc, i) == doc # NoDoc /\ doc.owner = i

\* one turn of the loop of heartbeat, after its sleep: the update, and
\* os._exit(0) when it found no document
heartbeat(i) ==
    /\ inst[i].pc = "active"
    /\ now >= inst[i].at
    /\ IF HeartbeatMatches(lock, i)
       THEN /\ lock' = [lock EXCEPT !.expiresAt = now + LEASE, !.updatedAt = now]
            /\ inst' = [inst EXCEPT ![i] = [pc |-> "active", at |-> now + interval]]
       ELSE /\ lock' = lock
            /\ inst' = [inst EXCEPT ![i] = [pc |-> "exited", at |-> now]]
    /\ UNCHANGED <<now, engine, norm>>

\* the TTL index on expiresAt: the server deletes a document whose time has come
TTLDelete ==
    /\ lock # NoDoc
    /\ lock.expiresAt <= now
    /\ lock' = NoDoc
    /\ UNCHANGED <<now, inst, engine, norm>>

\* time passes, whatever the instances are waiting for
Advance ==
    /\ now + Tock <= MaxTime
    /\ now' = now + Tock
    /\ UNCHANGED <<lock, inst, engine, norm>>

NextLock ==
    \/ \E i \in Instances : acquire_lock(i)
    \/ \E i \in Instances : heartbeat(i)
    \/ TTLDelete
    \/ Advance

\* Conflict.py makes no engine
InitLock == InitNormalize

SpecLock == InitLock /\ [][NextLock]_vars

Active(i) == inst[i].pc = "active"

\* C15: at most one instance at a time has returned from acquire_lock and
\* has not exited.
C15_OneActiveInstance == \A i, j \in Instances : Active(i) /\ Active(j) => i = j

\* another instance holds a lease that is not over
HeldByOther(i) == lock # NoDoc /\ lock.owner # i /\ lock.expiresAt > now

\* C16: a turn of acquire_lock returns only as the owner of the document;
\* against another instance's running lease it leaves the document alone and
\* sleeps RETRY seconds before the next turn; with the lease over or the
\* document absent it takes the lock.
C16_AcquireWaitsOrTakes ==
    [][\A i \in Instances : acquire_lock(i) =>
          /\ Active(i)' => (lock' # NoDoc /\ lock'.owner = i)
          /\ HeldByOther(i) =>
                 (lock' = lock /\ inst'[i] = [pc |-> "acquiring", at |-> now + RETRY])
          /\ ~HeldByOther(i) => (Active(i)' /\ lock' = Acquired(i, now))]_vars

\* C17: a heartbeat of the owner sets expiresAt to now + LEASE and keeps the
\* owner; a heartbeat that finds the document gone or another's leaves it as
\* it is and ends the process, and an ended process stays ended and writes
\* no document.
C17_HeartbeatKeepsOrGivesUp ==
    [][\A i \in Instances :
          /\ heartbeat(i) =>
                 IF lock # NoDoc /\ lock.owner = i
                 THEN lock' # NoDoc /\ lock'.owner = i /\ lock'.expiresAt = now + LEASE
                      /\ Active(i)'
                 ELSE lock' = lock /\ inst'[i].pc = "exited"
          /\ inst[i].pc = "exited" =>
                 /\ inst'[i].pc = "exited"
                 /\ lock' # lock => (lock' = NoDoc \/ lock'.owner # i)]_vars

\* one instance ended at a heartbeat that found the lock taken over, and the
\* instance that took it has renewed its lease since
C17_Witness ==
    \E i, j \in Instances :
        /\ inst[i].pc = "exited"
        /\ Active(j)
        /\ lock # NoDoc
        /\ lock.owner = j
        /\ lock.updatedAt > inst[i].at
        /\ lock.expiresAt = lock.updatedAt + LEASE

====
